---- MODULE Spec2Model ----
(***************************************************************************)
(* Model of the Unraid MCP gateway: the tool-protocol front end            *)
(* (unraid-mcp-server-simple.py) and the HTTP front end                    *)
(* (unraid-mcp-server-http.py).  Both translate an inbound call into one   *)
(* GraphQL POST against the upstream API and reshape the answer.           *)
(*                                                                         *)
(* JSON values are tagged records:                                         *)
(*   [t |-> "null"]              None / JSON null                          *)
(*   [t |-> "str",  v |-> s]     a string                                  *)
(*   [t |-> "text", v |-> seq]   a string built by an f-string, kept as    *)
(*                               the sequence of its fragments             *)
(*   [t |-> "num",  hi, lo]      the integer hi * 2^30 + lo                *)
(*   [t |-> "list", v |-> seq]   a list                                    *)
(*   [t |-> "obj",  v |-> f]     a dict, f a function on its keys          *)
(* A Python call is modelled by its outcome: Return(v) or Raise(...).      *)
(***************************************************************************)
EXTENDS Integers, Sequences, FiniteSets, TLC

VARIABLES pc, call, sent, upstream, result, log, arg, ret

vars == <<pc, call, sent, upstream, result, log, arg, ret>>

(***************************************************************************)
(* Bounds of the model.                                                    *)
(***************************************************************************)
NumCalls == 2
MaxErrors == 2
MaxContainers == 4
MaxTB == 2

(***************************************************************************)
(* JSON values and the Python operations the handlers use on them.         *)
(***************************************************************************)
None == [t |-> "null"]
Str(s) == [t |-> "str", v |-> s]
Text(fragments) == [t |-> "text", v |-> fragments]
Num(n) == [t |-> "num", hi |-> 0, lo |-> n]
BigNum(h, l) == [t |-> "num", hi |-> h, lo |-> l]
List(seq) == [t |-> "list", v |-> seq]
Obj(f) == [t |-> "obj", v |-> f]
EmptyObj == Obj(<<>>)

\* d.get(key, default) on a dict d
Get(d, key, default) == IF key \in DOMAIN d.v THEN d.v[key] ELSE default

\* Python truth value of a JSON value
Truthy(j) ==
  CASE j.t = "null" -> FALSE
    [] j.t = "str" -> j.v # ""
    [] j.t = "text" -> j.v # <<>>
    [] j.t = "num" -> j.hi # 0 \/ j.lo # 0
    [] j.t = "list" -> j.v # <<>>
    [] j.t = "obj" -> DOMAIN j.v # {}

\* what an f-string renders for a value
Fmt(j) ==
  CASE j.t = "null" -> "None"
    [] j.t = "str" -> j.v
    [] j.t = "num" -> ToString(j.lo)
    [] OTHER -> "<repr>"

\* outcomes of a call
Return(v) == [ok |-> TRUE, val |-> v]
Raise(cls, status, msg) == [ok |-> FALSE, cls |-> cls, status |-> status, msg |-> msg]

\* str(e): starlette's HTTPException renders "<status>: <detail>", every
\* other exception renders its message
StrExc(e) ==
  IF e.cls = "HTTPException" THEN <<ToString(e.status), ": ">> \o e.msg ELSE e.msg

AttributeErrorNone == Raise("AttributeError", 0, <<"'NoneType' object has no attribute 'get'">>)

RECURSIVE JoinFrom(_, _, _)
JoinFrom(sep, parts, i) ==
  IF i > Len(parts) THEN <<>>
  ELSE IF i = Len(parts) THEN <<parts[i]>>
  ELSE <<parts[i], sep>> \o JoinFrom(sep, parts, i + 1)

\* sep.join(parts), as the sequence of its fragments
Join(sep, parts) == JoinFrom(sep, parts, 1)

(***************************************************************************)
(* The GraphQL request executor (identical in both files but for the TLS   *)
(* flag and the timeout).  resp is what the network gives back:            *)
(*   [connected |-> FALSE]                      connect error / timeout    *)
(*   [connected |-> TRUE, status, body]         body: [t |-> "malformed"]  *)
(*                                              or a JSON value            *)
(***************************************************************************)
is_success(status) == status >= 200 /\ status <= 299

ErrorMessage(err) == IF "message" \in DOMAIN err.v THEN err.v["message"].v ELSE "<str(err)>"

\* variant: only the first error is reported
error_details_first(errs) == <<ErrorMessage(errs[1])>>

\* "; ".join([err.get("message", str(err)) for err in response_data["errors"]])
error_details(errs) == Join("; ", [i \in 1..Len(errs) |-> ErrorMessage(errs[i])])

make_graphql_request(resp) ==
  IF ~resp.connected
    THEN Raise("ConnectError", 0, <<"All connection attempts failed">>)
  ELSE IF ~is_success(resp.status)
    THEN Raise("HTTPStatusError", resp.status, <<"HTTP status error ", ToString(resp.status)>>)
  ELSE IF resp.body.t = "malformed"
    THEN Raise("JSONDecodeError", 0, <<"Expecting value: line 1 column 1 (char 0)">>)
  ELSE LET response_data == resp.body IN
    IF response_data.t = "null"
      THEN Raise("TypeError", 0, <<"argument of type 'NoneType' is not iterable">>)
    ELSE IF "errors" \in DOMAIN response_data.v /\ Truthy(response_data.v["errors"])
      THEN Raise("Exception", 0,
                 <<"GraphQL API error: ">> \o error_details(response_data.v["errors"].v))
    ELSE Return(Get(response_data, "data", EmptyObj))

(***************************************************************************)
(* Summary fields shared by the two get_system_info handlers.              *)
(***************************************************************************)
EmptyDict == [key \in {} |-> None]

OsSummary(raw_info) ==
  IF Truthy(Get(raw_info, "os", None))
    THEN LET os_info == raw_info.v["os"] IN
      [os |-> Str(Fmt(Get(os_info, "distro", Str(""))) \o " "
                  \o Fmt(Get(os_info, "release", Str(""))) \o " ("
                  \o Fmt(Get(os_info, "platform", Str(""))) \o ")"),
       hostname |-> Get(os_info, "hostname", None),
       uptime |-> Get(os_info, "uptime", None)]
    ELSE EmptyDict

CpuSummary(raw_info) ==
  IF Truthy(Get(raw_info, "cpu", None))
    THEN LET cpu_info == raw_info.v["cpu"] IN
      [cpu |-> Str(Fmt(Get(cpu_info, "manufacturer", Str(""))) \o " "
                   \o Fmt(Get(cpu_info, "brand", Str(""))) \o " ("
                   \o Fmt(Get(cpu_info, "cores", None)) \o " cores, "
                   \o Fmt(Get(cpu_info, "threads", None)) \o " threads)")]
    ELSE EmptyDict

VersionSummary(raw_info) ==
  IF Truthy(Get(raw_info, "versions", None))
    THEN [unraid_version |-> Get(raw_info.v["versions"], "unraid", None)]
    ELSE EmptyDict

\* len(d.get(key, [])): a missing key counts 0, a null value raises
LenOf(d, key) == Len(Get(d, key, List(<<>>)).v)
HasLen(d, key) == Get(d, key, List(<<>>)).t = "list"
TypeErrorLen == Raise("TypeError", 0, <<"object of type 'NoneType' has no len()">>)

(***************************************************************************)
(* Tool-protocol front end: the four operation handlers.  Each X_try is    *)
(* the body of the handler's try block, X the handler with its except      *)
(* clause.                                                                 *)
(***************************************************************************)
simple_get_system_info_try(resp) ==
  LET r == make_graphql_request(resp) IN
  IF ~r.ok THEN r
  ELSE IF r.val.t # "obj" THEN AttributeErrorNone
  ELSE LET raw_info == Get(r.val, "info", EmptyObj) IN
    IF ~Truthy(raw_info)
      THEN Raise("Exception", 0, <<"No system info returned from Unraid API">>)
      ELSE Return(Obj([summary |-> Obj(OsSummary(raw_info) @@ CpuSummary(raw_info)),
                       details |-> raw_info]))

simple_get_system_info(resp) ==
  LET r == simple_get_system_info_try(resp) IN
  IF r.ok THEN r
  ELSE Raise("Exception", 0, <<"Failed to retrieve system information: ">> \o StrExc(r))

simple_get_array_status_try(resp) ==
  LET r == make_graphql_request(resp) IN
  IF ~r.ok THEN r
  ELSE IF r.val.t # "obj" THEN AttributeErrorNone
  ELSE LET raw_array_info == Get(r.val, "array", EmptyObj) IN
    IF ~Truthy(raw_array_info)
      THEN Raise("Exception", 0, <<"No array information returned from Unraid API">>)
    ELSE IF ~HasLen(raw_array_info, "disks") \/ ~HasLen(raw_array_info, "parities")
      THEN TypeErrorLen
    ELSE Return(Obj([summary |-> Obj([state |-> Get(raw_array_info, "state", None),
                                      num_data_disks |-> Num(LenOf(raw_array_info, "disks")),
                                      num_parity_disks |-> Num(LenOf(raw_array_info, "parities"))]),
                     details |-> raw_array_info]))

simple_get_array_status(resp) ==
  LET r == simple_get_array_status_try(resp) IN
  IF r.ok THEN r
  ELSE Raise("Exception", 0, <<"Failed to retrieve array status: ">> \o StrExc(r))

simple_list_docker_containers_try(resp) ==
  LET r == make_graphql_request(resp) IN
  IF ~r.ok THEN r
  ELSE IF r.val.t # "obj" THEN AttributeErrorNone
  ELSE IF Truthy(Get(r.val, "docker", None))
    THEN Return(Get(r.val.v["docker"], "containers", List(<<>>)))
    ELSE Return(List(<<>>))

simple_list_docker_containers(resp) ==
  LET r == simple_list_docker_containers_try(resp) IN
  IF r.ok THEN r
  ELSE Raise("Exception", 0, <<"Failed to list Docker containers: ">> \o StrExc(r))

\* variant: the calls share one connection, busy while another call waits
simple_health_check_try_shared(resp) ==
  LET r == make_graphql_request(resp) IN
  IF Cardinality({c \in DOMAIN pc : pc[c] = "awaiting"}) > 1
    THEN Raise("Exception", 0, <<"request already in progress">>)
  ELSE IF ~r.ok THEN r
  ELSE IF r.val.t # "obj" THEN AttributeErrorNone
  ELSE Return(Obj([status |-> Str("healthy"),
                   server |-> Str("Unraid MCP Server"),
                   api_connection |-> Str("ok"),
                   unraid_system |-> Get(r.val, "info", EmptyObj)]))

simple_health_check_try(resp) ==
  LET r == make_graphql_request(resp) IN
  IF ~r.ok THEN r
  ELSE IF r.val.t # "obj" THEN AttributeErrorNone
  ELSE Return(Obj([status |-> Str("healthy"),
                   server |-> Str("Unraid MCP Server"),
                   api_connection |-> Str("ok"),
                   unraid_system |-> Get(r.val, "info", EmptyObj)]))

simple_health_check(resp) ==
  LET r == simple_health_check_try(resp) IN
  IF r.ok THEN r
  ELSE Return(Obj([status |-> Str("unhealthy"), error |-> Text(StrExc(r))]))

(***************************************************************************)
(* HTTP front end: the capacity formatter of get_array_status.             *)
(* Hundredths(n, d) is round(n * 100 / d) for 0 <= n < 2^30 and d a power  *)
(* of 1024, as '.2f' renders the (exact) quotient: to the nearest          *)
(* hundredth, ties to the even one.  The product n * 100 is split at 1024  *)
(* so that every intermediate value stays below 2^31.                      *)
(***************************************************************************)
KB == 1024
MB == 1024 * 1024
GB == 1024 * 1024 * 1024

Hundredths(n, d) ==
  LET d1 == d \div 1024
      x == (n \div 1024) * 100 + ((n % 1024) * 100) \div 1024
      f == ((n % 1024) * 100) % 1024
      q == x \div d1
      r == (x % d1) * 1024 + f
  IN IF r > d - r \/ (r = d - r /\ q % 2 = 1) THEN q + 1 ELSE q

Fixed2(h) ==
  ToString(h \div 100) \o "." \o (IF h % 100 < 10 THEN "0" ELSE "") \o ToString(h % 100)

\* variant: strict comparisons at the unit boundaries
format_kb_strict(k) ==
  IF k.t = "null" THEN "N/A"
  ELSE IF k.hi > 1 \/ (k.hi = 1 /\ k.lo > 0) THEN Fixed2(k.hi * 100 + Hundredths(k.lo, GB)) \o " TB"
  ELSE IF k.hi = 1 \/ k.lo > MB THEN Fixed2(k.hi * 102400 + Hundredths(k.lo, MB)) \o " GB"
  ELSE IF k.lo > KB THEN Fixed2(Hundredths(k.lo, KB)) \o " MB"
  ELSE ToString(k.lo) \o " KB"

format_kb(k) ==
  IF k.t = "null" THEN "N/A"
  ELSE IF k.hi >= 1 THEN Fixed2(k.hi * 100 + Hundredths(k.lo, GB)) \o " TB"
  ELSE IF k.lo >= MB THEN Fixed2(Hundredths(k.lo, MB)) \o " GB"
  ELSE IF k.lo >= KB THEN Fixed2(Hundredths(k.lo, KB)) \o " MB"
  ELSE ToString(k.lo) \o " KB"

CapacitySummary(raw_array_info) ==
  IF Truthy(Get(raw_array_info, "capacity", None))
     /\ Truthy(Get(raw_array_info.v["capacity"], "kilobytes", None))
    THEN LET kb_cap == raw_array_info.v["capacity"].v["kilobytes"] IN
      [capacity |-> Obj([total |-> Str(format_kb(Get(kb_cap, "total", None))),
                         used |-> Str(format_kb(Get(kb_cap, "used", None))),
                         free |-> Str(format_kb(Get(kb_cap, "free", None)))])]
    ELSE EmptyDict

(***************************************************************************)
(* HTTP front end: the route handlers.  A handler returns a dict, returns  *)
(* a JSONResponse, or raises.                                              *)
(***************************************************************************)
JSONResponse(status_code, content) ==
  [t |-> "JSONResponse", status_code |-> status_code, content |-> content]

\* variant: no check that info came back
http_get_system_info_try_unchecked(resp) ==
  LET r == make_graphql_request(resp) IN
  IF ~r.ok THEN r
  ELSE IF r.val.t # "obj" THEN AttributeErrorNone
  ELSE LET raw_info == Get(r.val, "info", EmptyObj) IN
    IF raw_info.t # "obj" THEN AttributeErrorNone
    ELSE Return(Obj([summary |-> Obj(OsSummary(raw_info) @@ CpuSummary(raw_info)
                                     @@ VersionSummary(raw_info)),
                     details |-> raw_info]))

http_get_system_info_try(resp) ==
  LET r == make_graphql_request(resp) IN
  IF ~r.ok THEN r
  ELSE IF r.val.t # "obj" THEN AttributeErrorNone
  ELSE LET raw_info == Get(r.val, "info", EmptyObj) IN
    IF ~Truthy(raw_info)
      THEN Raise("HTTPException", 404, <<"No system info returned from Unraid API">>)
      ELSE Return(Obj([summary |-> Obj(OsSummary(raw_info) @@ CpuSummary(raw_info)
                                       @@ VersionSummary(raw_info)),
                       details |-> raw_info]))

http_get_system_info(resp) ==
  LET r == http_get_system_info_try(resp) IN
  IF r.ok THEN r
  ELSE Raise("HTTPException", 500, <<"Failed to retrieve system information: ">> \o StrExc(r))

http_get_array_status_try(resp) ==
  LET r == make_graphql_request(resp) IN
  IF ~r.ok THEN r
  ELSE IF r.val.t # "obj" THEN AttributeErrorNone
  ELSE LET raw_array_info == Get(r.val, "array", EmptyObj) IN
    IF ~Truthy(raw_array_info)
      THEN Raise("HTTPException", 404, <<"No array information returned from Unraid API">>)
    ELSE IF ~HasLen(raw_array_info, "disks") \/ ~HasLen(raw_array_info, "parities")
      THEN TypeErrorLen
    ELSE Return(Obj([summary |-> Obj([state |-> Get(raw_array_info, "state", None),
                                      num_data_disks |-> Num(LenOf(raw_array_info, "disks")),
                                      num_parity_disks |-> Num(LenOf(raw_array_info, "parities"))]
                                     @@ CapacitySummary(raw_array_info)),
                     details |-> raw_array_info]))

\* variant: an HTTPException raised inside the try block passes through
http_get_array_status_reraise(resp) ==
  LET r == http_get_array_status_try(resp) IN
  IF r.ok \/ r.cls = "HTTPException" THEN r
  ELSE Raise("HTTPException", 500, <<"Failed to retrieve array status: ">> \o StrExc(r))

http_get_array_status(resp) ==
  LET r == http_get_array_status_try(resp) IN
  IF r.ok THEN r
  ELSE Raise("HTTPException", 500, <<"Failed to retrieve array status: ">> \o StrExc(r))

\* len([c for c in containers if c.get("state") == state])
CountState(containers, state) ==
  Cardinality({i \in 1..Len(containers) : Get(containers[i], "state", None) = Str(state)})

\* variant: every container that is not running counts as stopped
ContainerSummary_not_running(containers) ==
  Obj([total |-> Num(Len(containers)),
       running |-> Num(CountState(containers, "running")),
       stopped |-> Num(Len(containers) - CountState(containers, "running"))])

ContainerSummary(containers) ==
  Obj([total |-> Num(Len(containers)),
       running |-> Num(CountState(containers, "running")),
       stopped |-> Num(CountState(containers, "exited"))])

http_list_docker_containers_try(resp) ==
  LET r == make_graphql_request(resp) IN
  IF ~r.ok THEN r
  ELSE IF r.val.t # "obj" THEN AttributeErrorNone
  ELSE IF Truthy(Get(r.val, "docker", None))
    THEN LET containers == Get(r.val.v["docker"], "containers", List(<<>>)) IN
      IF containers.t # "list"
        THEN Raise("TypeError", 0, <<"'NoneType' object is not iterable">>)
        ELSE Return(Obj([summary |-> ContainerSummary(containers.v),
                         containers |-> containers]))
    ELSE Return(Obj([summary |-> Obj([total |-> Num(0), running |-> Num(0), stopped |-> Num(0)]),
                     containers |-> List(<<>>)]))

http_list_docker_containers(resp) ==
  LET r == http_list_docker_containers_try(resp) IN
  IF r.ok THEN r
  ELSE Raise("HTTPException", 500, <<"Failed to list Docker containers: ">> \o StrExc(r))

http_health_check_try(resp, now) ==
  LET r == make_graphql_request(resp) IN
  IF ~r.ok THEN r
  ELSE IF r.val.t # "obj" THEN AttributeErrorNone
  ELSE LET info == Get(r.val, "info", EmptyObj) IN
    IF info.t # "obj" THEN AttributeErrorNone
    ELSE Return(Obj([status |-> Str("healthy"),
                     timestamp |-> Str(now),
                     server |-> Str("Unraid MCP Server HTTP"),
                     version |-> Str("1.0.0"),
                     api_connection |-> Str("ok"),
                     unraid_system |-> Obj([machine_id |-> Get(info, "machineId", None),
                                            time |-> Get(info, "time", None)])]))

\* variant: the failure is not caught
http_health_check_propagating(resp, now) == http_health_check_try(resp, now)

http_health_check(resp, now) ==
  LET r == http_health_check_try(resp, now) IN
  IF r.ok THEN r
  ELSE Return(JSONResponse(503, Obj([status |-> Str("unhealthy"),
                                     timestamp |-> Str(now),
                                     error |-> Text(StrExc(r))])))

(***************************************************************************)
(* The two dispatchers.                                                    *)
(***************************************************************************)
Operations == {"get_system_info", "get_array_status", "list_docker_containers", "health_check"}

TextContent(text) == [type |-> "text", text |-> text]

\* json.dumps(value, indent=2): the JSON text of value
json_dumps(value) == [t |-> "json", v |-> value]

\* the handler call_tool awaits for a known name
simple_handler(name, resp) ==
  CASE name = "get_system_info" -> simple_get_system_info(resp)
    [] name = "get_array_status" -> simple_get_array_status(resp)
    [] name = "list_docker_containers" -> simple_list_docker_containers(resp)
    [] name = "health_check" -> simple_health_check(resp)

\* variant: no except clause around the dispatch
call_tool_unguarded(name, resp) ==
  LET r == IF name \in Operations
             THEN simple_handler(name, resp)
             ELSE Raise("Exception", 0, <<"Unknown tool: ", name>>)
  IN IF r.ok THEN Return(<<TextContent(json_dumps(r.val))>>) ELSE r

call_tool(name, resp) ==
  LET r == IF name \in Operations
             THEN simple_handler(name, resp)
             ELSE Raise("Exception", 0, <<"Unknown tool: ", name>>)
  IN IF r.ok
       THEN Return(<<TextContent(json_dumps(r.val))>>)
       ELSE Return(<<TextContent(Text(<<"Error: ">> \o StrExc(r)))>>)

\* GET / and GET /tools answer from constants
root == Return(Obj([name |-> Str("Unraid MCP Server"), version |-> Str("1.0.0"),
                    transport |-> Str("HTTP")]))

list_tools == Return(Obj([tools |-> List(<<Str("get_system_info"), Str("get_array_status"),
                                           Str("list_docker_containers"), Str("health_check")>>)]))

http_handler(name, resp, now) ==
  CASE name = "get_system_info" -> http_get_system_info(resp)
    [] name = "get_array_status" -> http_get_array_status(resp)
    [] name = "list_docker_containers" -> http_list_docker_containers(resp)
    [] name = "health_check" -> http_health_check(resp, now)
    [] name = "root" -> root
    [] name = "list_tools" -> list_tools

\* what the web framework sends for a route handler's outcome
HttpResponse(status, body) == [status |-> status, body |-> body]

route(outcome) ==
  IF outcome.ok
    THEN IF outcome.val.t = "JSONResponse"
           THEN HttpResponse(outcome.val.status_code, outcome.val.content)
           ELSE HttpResponse(200, outcome.val)
  ELSE IF outcome.cls = "HTTPException"
    THEN HttpResponse(outcome.status, Obj([detail |-> Text(outcome.msg)]))
    ELSE HttpResponse(500, Str("Internal Server Error"))

\* the result an inbound call produces from the upstream response resp
Dispatch(front, name, resp, now) ==
  IF front = "tool"
    THEN [t |-> "tool", out |-> call_tool(name, resp)]
    ELSE [t |-> "http", out |-> route(http_handler(name, resp, now))]

(***************************************************************************)
(* Logging (module-level logger, level INFO): the only object the calls    *)
(* of one process share.                                                   *)
(***************************************************************************)
LogLine(level, msg) == [level |-> level, msg |-> msg]

OperationLabel(name) ==
  CASE name = "get_system_info" -> "Getting system information"
    [] name = "get_array_status" -> "Getting array status"
    [] name = "list_docker_containers" -> "Listing Docker containers"

\* lines written before the upstream request is awaited
EntryLog(front, name) ==
  IF front = "http" /\ name \in Operations \ {"health_check"}
    THEN <<LogLine("INFO", <<OperationLabel(name)>>)>>
    ELSE <<>>

\* the exception the handler's except clause catches, if any
Caught(front, name, resp, now) ==
  IF front = "tool"
    THEN CASE name = "get_system_info" -> simple_get_system_info_try(resp)
           [] name = "get_array_status" -> simple_get_array_status_try(resp)
           [] name = "list_docker_containers" -> simple_list_docker_containers_try(resp)
           [] name = "health_check" -> simple_health_check_try(resp)
    ELSE CASE name = "get_system_info" -> http_get_system_info_try(resp)
           [] name = "get_array_status" -> http_get_array_status_try(resp)
           [] name = "list_docker_containers" -> http_list_docker_containers_try(resp)
           [] name = "health_check" -> http_health_check_try(resp, now)

\* lines written after the upstream request completed or failed
ExitLog(front, name, resp, now) ==
  LET handlerLines ==
        IF name \in Operations /\ ~Caught(front, name, resp, now).ok
          THEN <<LogLine("ERROR",
                   <<IF name = "health_check" THEN "Health check failed: "
                     ELSE "Error in " \o name \o ": ">> \o StrExc(Caught(front, name, resp, now)))>>
          ELSE <<>>
      toolLines ==
        IF front = "tool" /\ name \notin Operations
          THEN <<LogLine("ERROR", <<"Error in tool ", name, ": ", "Unknown tool: ", name>>)>>
        ELSE IF front = "tool" /\ ~simple_handler(name, resp).ok
          THEN <<LogLine("ERROR", <<"Error in tool ", name, ": ">> \o StrExc(simple_handler(name, resp)))>>
          ELSE <<>>
  IN handlerLines \o toolLines

(***************************************************************************)
(* What the upstream may answer.  A GraphQL answer carries only the field  *)
(* the query selects, so the data of an answer depend on the operation.    *)
(***************************************************************************)
Absent == [t |-> "absent"]
Malformed == [t |-> "malformed"]

ErrX == Obj([message |-> Str("x")])
ErrY == Obj([message |-> Str("y")])
ErrNoMessage == Obj([code |-> Num(1)])

ErrorSeqs ==
  UNION {[1..n -> {ErrX, ErrY}] : n \in 1..MaxErrors} \cup {<<ErrNoMessage, ErrX>>}

InfoFull ==
  Obj([os |-> Obj([platform |-> Str("linux"), distro |-> Str("Unraid"), release |-> Str("6.12"),
                   hostname |-> Str("tower"), uptime |-> Str("2024-01-01T00:00:00Z")]),
       cpu |-> Obj([manufacturer |-> Str("Intel"), brand |-> Str("i7"),
                    cores |-> Num(8), threads |-> Num(16)]),
       time |-> Str("t1"),
       machineId |-> Str("m1"),
       versions |-> Obj([unraid |-> Str("6.12.4")])])

InfoPartial ==
  Obj([os |-> Obj([hostname |-> Str("tower")]), cpu |-> None, machineId |-> Str("m2")])

Disk(name) == Obj([id |-> Str(name), name |-> Str(name), status |-> Str("DISK_OK")])

ArrayFull ==
  Obj([state |-> Str("STARTED"),
       capacity |-> Obj([kilobytes |-> Obj([free |-> None, used |-> Num(500), total |-> Num(2048)])]),
       disks |-> List(<<Disk("disk1"), Disk("disk2")>>),
       parities |-> List(<<Disk("parity")>>)])

ArrayBare == Obj([state |-> Str("STOPPED")])

ArrayNullDisks == Obj([state |-> Str("STARTED"), disks |-> None])

Container(state) ==
  IF state = "" THEN Obj([id |-> Str("c")]) ELSE Obj([id |-> Str("c"), state |-> Str(state)])

DockerSome == Obj([containers |-> List(<<Container("running"), Container("exited"), Container("paused")>>)])

DockerNoList == Obj([info |-> Str("docker")])

DockerNullList == Obj([containers |-> None])

QueryField(name) ==
  CASE name \in {"get_system_info", "health_check"} -> "info"
    [] name = "get_array_status" -> "array"
    [] name = "list_docker_containers" -> "docker"

FieldValues(name) ==
  {None, EmptyObj} \cup
  CASE name \in {"get_system_info", "health_check"} -> {InfoFull, InfoPartial}
    [] name = "get_array_status" -> {ArrayFull, ArrayBare, ArrayNullDisks}
    [] name = "list_docker_containers" -> {DockerSome, DockerNoList, DockerNullList}

Populated(name) ==
  CASE name \in {"get_system_info", "health_check"} -> InfoFull
    [] name = "get_array_status" -> ArrayFull
    [] name = "list_docker_containers" -> DockerSome

DataWith(name, value) == Obj([key \in {QueryField(name)} |-> value])

DataValues(name) ==
  {Absent, None, EmptyObj} \cup {DataWith(name, value) : value \in FieldValues(name)}

Body(errors, data) ==
  Obj((IF errors = Absent THEN EmptyDict ELSE [errors |-> errors])
      @@ (IF data = Absent THEN EmptyDict ELSE [data |-> data]))

Answer(status, body) == [connected |-> TRUE, status |-> status, body |-> body]

Unreachable == [connected |-> FALSE]

Responses(name) ==
  IF name \notin Operations THEN {}
  ELSE
  {Unreachable}
  \cup {Answer(status, Malformed) : status \in {401, 500}}
  \cup {Answer(200, Malformed), Answer(200, None)}
  \cup {Answer(200, Body(errors, data)) :
          errors \in {Absent, None, List(<<>>)}, data \in DataValues(name)}
  \cup {Answer(200, Body(List(errs), data)) :
          errs \in ErrorSeqs, data \in {Absent, None, DataWith(name, Populated(name))}}

\* the answers used when several calls run at once
ConcResponses(name) ==
  IF name \notin Operations THEN {}
  ELSE
  {Unreachable,
   Answer(200, Body(List(<<ErrX, ErrY>>), DataWith(name, Populated(name)))),
   Answer(200, Body(Absent, EmptyObj)),
   Answer(200, Body(Absent, DataWith(name, Populated(name))))}

Times == {"T1", "T2"}

(***************************************************************************)
(* The state machine: inbound calls, each a coroutine of the serving       *)
(* runtime.  pc[c] is where call c stands: "idle" (not yet received),      *)
(* "awaiting" (suspended in client.post) or "done" (result produced).      *)
(***************************************************************************)
Calls == 1..NumCalls

Fronts == {"http", "tool"}

Names(front) ==
  IF front = "http" THEN Operations \cup {"root", "list_tools"}
  ELSE Operations \cup {"nonexistent"}

NoCall == [front |-> "none", name |-> "none"]
NoResponse == [t |-> "none"]
NoResult == [t |-> "none"]

Init ==
  /\ pc = [c \in Calls |-> "idle"]
  /\ call = [c \in Calls |-> NoCall]
  /\ sent = [c \in Calls |-> 0]
  /\ upstream = [c \in Calls |-> NoResponse]
  /\ result = [c \in Calls |-> NoResult]
  /\ log = <<>>
  /\ arg = NoResult
  /\ ret = NoResult

\* variant: a failed request is sent again
after_await_retry(outcome) == IF outcome.ok THEN "done" ELSE "awaiting"

\* where a call stands once the awaited request has completed or failed:
\* the handler runs to its return or into its except clause, never back
\* to the request
after_await(outcome) == "done"

\* an inbound call arrives and runs to its first suspension point
Invoke(c, front, name) ==
  /\ pc[c] = "idle"
  /\ call' = [call EXCEPT ![c] = [front |-> front, name |-> name]]
  /\ IF name \in Operations
       THEN /\ sent' = [sent EXCEPT ![c] = @ + 1]
            /\ pc' = [pc EXCEPT ![c] = "awaiting"]
            /\ log' = log \o EntryLog(front, name)
            /\ UNCHANGED result
       ELSE /\ pc' = [pc EXCEPT ![c] = "done"]
            /\ result' = [result EXCEPT ![c] = Dispatch(front, name, NoResponse, "T1")]
            /\ log' = log \o ExitLog(front, name, NoResponse, "T1")
            /\ UNCHANGED sent
  /\ UNCHANGED <<upstream, arg, ret>>

\* the awaited request of call c completes or fails with resp
Respond(c, resp, now) ==
  /\ pc[c] = "awaiting"
  /\ upstream' = [upstream EXCEPT ![c] = resp]
  /\ IF after_await(make_graphql_request(resp)) = "done"
       THEN /\ pc' = [pc EXCEPT ![c] = "done"]
            /\ result' = [result EXCEPT ![c] = Dispatch(call[c].front, call[c].name, resp, now)]
            /\ log' = log \o ExitLog(call[c].front, call[c].name, resp, now)
            /\ UNCHANGED sent
       ELSE /\ sent' = [sent EXCEPT ![c] = @ + 1]
            /\ UNCHANGED <<pc, result, log>>
  /\ UNCHANGED <<call, arg, ret>>

\* one inbound call, every answer of the upstream
Next ==
  \/ \E front \in Fronts : \E name \in Names(front) : Invoke(1, front, name)
  \/ \E resp \in Responses(call[1].name) : \E now \in Times : Respond(1, resp, now)

Spec == Init /\ [][Next]_vars

\* NumCalls concurrent calls
NextConc ==
  \/ \E c \in Calls : \E front \in Fronts : \E name \in Names(front) : Invoke(c, front, name)
  \/ \E c \in Calls : \E resp \in ConcResponses(call[c].name) : \E now \in Times :
       Respond(c, resp, now)

SpecConc == Init /\ [][NextConc]_vars

(***************************************************************************)
(* GET /docker/containers over every container list of up to               *)
(* MaxContainers containers.  A container's state is "running", "exited",  *)
(* "paused", or missing ("").                                              *)
(***************************************************************************)
ContainerStates == {"running", "exited", "paused", ""}

ContainerLists ==
  UNION {[1..n -> {Container(state) : state \in ContainerStates}] : n \in 0..MaxContainers}

DockerAnswer(containers) ==
  Answer(200, Body(Absent, Obj([docker |-> Obj([containers |-> List(containers)])])))

InitDocker ==
  /\ pc = [c \in Calls |-> "idle"]
  /\ call = [c \in Calls |-> NoCall]
  /\ sent = [c \in Calls |-> 0]
  /\ upstream = [c \in Calls |-> NoResponse]
  /\ result = [c \in Calls |-> NoResult]
  /\ log = <<>>
  /\ arg \in {[t |-> "containers", v |-> containers] : containers \in ContainerLists}
  /\ ret = NoResult

ListContainers ==
  /\ arg.t = "containers"
  /\ ret = NoResult
  /\ ret' = route(http_list_docker_containers(DockerAnswer(arg.v)))
  /\ UNCHANGED <<pc, call, sent, upstream, result, log, arg>>

NextDocker == ListContainers

SpecDocker == InitDocker /\ [][NextDocker]_vars

(***************************************************************************)
(* GET /array-status over capacity figures around the unit boundaries.     *)
(* Each of total/used/free is missing, null, or a number of kilobytes.     *)
(***************************************************************************)
Kilobytes ==
  {Absent, None}
  \cup {Num(n) : n \in {0, 1, 500, KB - 1, KB, KB + 1, KB + 5, KB + 6, 1536, 123456,
                         MB - 1, MB, MB + 1, 5500000, 123456789, GB \div 8, GB - 5369, GB - 1}}
  \cup {BigNum(h, l) : h \in 1..MaxTB, l \in {0, 1, GB \div 8, 5368709, 5368710, GB - 1}}

CapacityFields == {"total", "used", "free"}

KilobyteRecords ==
  {[t |-> "kilobytes", total |-> total, used |-> used, free |-> free] :
     total \in Kilobytes, used \in Kilobytes, free \in Kilobytes}

\* the kilobytes object of the answer: a missing figure has no key
KilobytesObj(a) ==
  Obj([key \in {f \in CapacityFields : a[f] # Absent} |-> a[key]])

ArrayAnswer(a) ==
  Answer(200, Body(Absent, Obj([array |->
    Obj([state |-> Str("STARTED"), capacity |-> Obj([kilobytes |-> KilobytesObj(a)])])])))

InitCapacity ==
  /\ pc = [c \in Calls |-> "idle"]
  /\ call = [c \in Calls |-> NoCall]
  /\ sent = [c \in Calls |-> 0]
  /\ upstream = [c \in Calls |-> NoResponse]
  /\ result = [c \in Calls |-> NoResult]
  /\ log = <<>>
  /\ arg \in KilobyteRecords
  /\ ret = NoResult

ArrayStatus ==
  /\ arg.t = "kilobytes"
  /\ ret = NoResult
  /\ ret' = route(http_get_array_status(ArrayAnswer(arg)))
  /\ UNCHANGED <<pc, call, sent, upstream, result, log, arg>>

NextCapacity == ArrayStatus

SpecCapacity == InitCapacity /\ [][NextCapacity]_vars

(***************************************************************************)
(* Vocabulary of the properties: how an upstream answer is classified and  *)
(* what a finished call shows its client.                                  *)
(***************************************************************************)
Finished(c) == pc[c] = "done"

IsTool(c, name) == Finished(c) /\ call[c].front = "tool" /\ call[c].name = name
IsHttp(c, name) == Finished(c) /\ call[c].front = "http" /\ call[c].name = name

DataOperations == {"get_system_info", "get_array_status", "list_docker_containers"}

\* the answer arrived with a success status and a JSON object as body
Answered(resp) ==
  /\ resp # NoResponse
  /\ resp.connected
  /\ resp.status \in 200..299
  /\ resp.body.t = "obj"

\* the errors array of the answer, <<>> when there is none
ErrorsIn(resp) ==
  IF Answered(resp) /\ "errors" \in DOMAIN resp.body.v /\ resp.body.v["errors"].t = "list"
    THEN resp.body.v["errors"].v
    ELSE <<>>

\* the request failed: transport, status, malformed body or reported errors
RequestFailed(resp) == resp # NoResponse /\ (~Answered(resp) \/ ErrorsIn(resp) # <<>>)

RequestSucceeded(resp) == Answered(resp) /\ ErrorsIn(resp) = <<>>

\* the data of a successful answer is a mapping (an absent data key counts
\* as the empty mapping)
DataIsMapping(resp) ==
  RequestSucceeded(resp) /\ ("data" \in DOMAIN resp.body.v => resp.body.v["data"].t = "obj")

\* the value of a top-level data field, Absent when the field is not there
FieldIn(resp, field) ==
  IF "data" \in DOMAIN resp.body.v /\ resp.body.v["data"].t = "obj"
     /\ field \in DOMAIN resp.body.v["data"].v
    THEN resp.body.v["data"].v[field]
    ELSE Absent

\* the payload a tool call returned: its single text content
ToolText(c) == result[c].out.val[1].text

IsErrorText(text) == text.t = "text" /\ Len(text.v) >= 2 /\ text.v[1] = "Error: "

\* the JSON value a call's client receives (tool: the value serialised in
\* the text, HTTP: the body)
Payload(c) ==
  IF call[c].front = "tool"
    THEN IF result[c].out.ok /\ ToolText(c).t = "json" THEN ToolText(c).v ELSE None
    ELSE result[c].out.body

PayloadHas(c, key) == Payload(c).t = "obj" /\ key \in DOMAIN Payload(c).v

\* the fragments of the error message a call's client receives
ErrorShown(c) ==
  IF call[c].front = "tool" /\ result[c].out.ok /\ ToolText(c).t = "text" THEN ToolText(c).v
  ELSE IF PayloadHas(c, "detail") THEN Payload(c).v["detail"].v
  ELSE IF PayloadHas(c, "error") THEN Payload(c).v["error"].v
  ELSE <<>>

Contains(text, part) ==
  \E i \in 1..(Len(text) - Len(part) + 1) : SubSeq(text, i, i + Len(part) - 1) = part

(***************************************************************************)
(* C1: call_tool never raises.  Whatever the tool name and whatever the    *)
(* upstream does, a finished tool call returned one text content; the text *)
(* is "Error: <message>" when the name is unknown, and when a data         *)
(* operation failed (its request failed, or system info / array data were  *)
(* missing); an unknown name is answered without any upstream request.     *)
(***************************************************************************)
C1_CallToolNeverRaises ==
  \A c \in Calls :
    (Finished(c) /\ call[c].front = "tool") =>
      /\ result[c].t = "tool"
      /\ result[c].out.ok
      /\ Len(result[c].out.val) = 1
      /\ result[c].out.val[1].type = "text"
      /\ ToolText(c).t \in {"text", "json"}
      /\ call[c].name \notin Operations =>
           /\ IsErrorText(ToolText(c))
           /\ sent[c] = 0
           /\ upstream[c] = NoResponse
      /\ (call[c].name \in DataOperations /\ RequestFailed(upstream[c])) =>
           IsErrorText(ToolText(c))
      /\ (call[c].name \in {"get_system_info", "get_array_status"}
          /\ DataIsMapping(upstream[c])
          /\ FieldIn(upstream[c], QueryField(call[c].name)) \in {Absent, None, EmptyObj}) =>
           IsErrorText(ToolText(c))

C1_Witness ==
  \E c \in Calls :
    /\ IsTool(c, "nonexistent")
    /\ sent[c] = 0
    /\ result[c].out.ok
    /\ IsErrorText(ToolText(c))

(***************************************************************************)
(* C2: whenever the request of health_check fails in any way, the call     *)
(* ends with a status record whose status is "unhealthy" and which carries *)
(* the error text, not with an exception; over HTTP the response status is *)
(* 503.                                                                    *)
(***************************************************************************)
C2_HealthFailureIsUnhealthy ==
  \A c \in Calls :
    (Finished(c) /\ call[c].name = "health_check" /\ RequestFailed(upstream[c])) =>
      /\ call[c].front = "tool" => (result[c].out.ok /\ ToolText(c).t = "json")
      /\ call[c].front = "http" => result[c].out.status = 503
      /\ PayloadHas(c, "status")
      /\ Payload(c).v["status"] = Str("unhealthy")
      /\ PayloadHas(c, "error")
      /\ Payload(c).v["error"].t = "text"
      /\ Len(Payload(c).v["error"].v) >= 1

C2_Witness ==
  \E c \in Calls :
    /\ IsHttp(c, "health_check")
    /\ upstream[c] = Unreachable
    /\ result[c].out.status = 503
    /\ Payload(c).v["status"] = Str("unhealthy")

(***************************************************************************)
(* C3: an answer whose errors array is not empty is a failed request,      *)
(* whatever its data: every operation of both front ends fails             *)
(* (health_check: reports unhealthy), the message shown contains the       *)
(* message fields of all errors in order, joined by "; ", and nothing of   *)
(* the answer's data is returned.                                          *)
(***************************************************************************)
RECURSIVE MessagesJoined(_)
MessagesJoined(errs) ==
  IF Len(errs) = 1 THEN <<errs[1].v["message"].v>>
  ELSE MessagesJoined(SubSeq(errs, 1, Len(errs) - 1)) \o <<"; ", errs[Len(errs)].v["message"].v>>

AllHaveMessage(errs) == \A i \in 1..Len(errs) : "message" \in DOMAIN errs[i].v

C3_ErrorsArrayFails ==
  \A c \in Calls :
    (Finished(c) /\ call[c].name \in Operations /\ ErrorsIn(upstream[c]) # <<>>) =>
      /\ IF call[c].name = "health_check"
           THEN PayloadHas(c, "status") /\ Payload(c).v["status"] = Str("unhealthy")
           ELSE IF call[c].front = "tool" THEN IsErrorText(ToolText(c))
           ELSE result[c].out.status = 500
      /\ AllHaveMessage(ErrorsIn(upstream[c])) =>
           Contains(ErrorShown(c), MessagesJoined(ErrorsIn(upstream[c])))
      /\ \A key \in {"summary", "details", "containers", "unraid_system"} : ~PayloadHas(c, key)
      /\ Payload(c).t # "list"

C3_Witness ==
  \E c \in Calls :
    /\ IsHttp(c, "get_array_status")
    /\ ErrorsIn(upstream[c]) = <<ErrX, ErrY>>
    /\ FieldIn(upstream[c], "array") = ArrayFull
    /\ Contains(ErrorShown(c), <<"x", "; ", "y">>)

(***************************************************************************)
(* C4: for a successful answer without errors whose data is a mapping,     *)
(* get_system_info fails with the missing-data ("not found") error when    *)
(* info is absent or empty, get_array_status likewise for array, while     *)
(* list_docker_containers with docker absent does not fail: it returns the *)
(* zero summary with no containers (HTTP) or the empty list (tool).        *)
(***************************************************************************)
NotFoundMessage(name) ==
  IF name = "get_system_info" THEN "No system info returned from Unraid API"
  ELSE "No array information returned from Unraid API"

ZeroSummary == Obj([total |-> Num(0), running |-> Num(0), stopped |-> Num(0)])

C4_MissingData ==
  \A c \in Calls :
    (Finished(c) /\ call[c].name \in DataOperations /\ DataIsMapping(upstream[c])) =>
      LET field == FieldIn(upstream[c], QueryField(call[c].name)) IN
      /\ (call[c].name # "list_docker_containers" /\ field \in {Absent, None, EmptyObj}) =>
           /\ IF call[c].front = "tool" THEN IsErrorText(ToolText(c))
              ELSE result[c].out.status \notin 200..299
           /\ Contains(ErrorShown(c), <<NotFoundMessage(call[c].name)>>)
      /\ (call[c].name = "list_docker_containers" /\ field = Absent) =>
           IF call[c].front = "tool"
             THEN result[c].out.ok /\ ToolText(c) = json_dumps(List(<<>>))
             ELSE /\ result[c].out.status = 200
                  /\ result[c].out.body = Obj([summary |-> ZeroSummary, containers |-> List(<<>>)])

C4_Witness ==
  \E c \in Calls :
    /\ IsHttp(c, "get_system_info")
    /\ DataIsMapping(upstream[c])
    /\ FieldIn(upstream[c], "info") = Absent
    /\ Contains(ErrorShown(c), <<"No system info returned from Unraid API">>)

(***************************************************************************)
(* C5: over HTTP, /system-info, /array-status and /docker/containers       *)
(* answer with status 200 or 500 only; every failure, the handler's own    *)
(* missing-data error (raised with status 404) included, is a 500 whose    *)
(* body is {detail: <the operation's wrapping message, then the cause>};   *)
(* 503 comes from /health only.                                            *)
(***************************************************************************)
WrappingMessage(name) ==
  CASE name = "get_system_info" -> "Failed to retrieve system information: "
    [] name = "get_array_status" -> "Failed to retrieve array status: "
    [] name = "list_docker_containers" -> "Failed to list Docker containers: "

C5_HttpErrorsAre500 ==
  \A c \in Calls :
    (Finished(c) /\ call[c].front = "http") =>
      /\ result[c].out.status = 503 => call[c].name = "health_check"
      /\ call[c].name \in DataOperations =>
           /\ result[c].out.status \in {200, 500}
           /\ RequestFailed(upstream[c]) => result[c].out.status = 500
           /\ (call[c].name # "list_docker_containers" /\ DataIsMapping(upstream[c])
               /\ FieldIn(upstream[c], QueryField(call[c].name)) \in {Absent, None, EmptyObj}) =>
                /\ result[c].out.status = 500
                /\ Contains(ErrorShown(c), <<"404", ": ">>)
           /\ result[c].out.status = 500 =>
                /\ result[c].out.body.t = "obj"
                /\ DOMAIN result[c].out.body.v = {"detail"}
                /\ Len(ErrorShown(c)) >= 2
                /\ ErrorShown(c)[1] = WrappingMessage(call[c].name)
           /\ result[c].out.status = 200 => PayloadHas(c, "summary")

C5_Witness ==
  \E c \in Calls :
    /\ IsHttp(c, "get_array_status")
    /\ DataIsMapping(upstream[c])
    /\ FieldIn(upstream[c], "array") = Absent
    /\ result[c].out.status = 500
    /\ ErrorShown(c)[1] = "Failed to retrieve array status: "

(***************************************************************************)
(* C10: whenever the request of health_check succeeds, the call returns a  *)
(* record with status "healthy", the server identifier and the machineId   *)
(* and time of the answer under unraid_system, in both front ends and for  *)
(* every data mapping, also when info is absent or null.                   *)
(***************************************************************************)
EchoOf(field, key) == IF field.t = "obj" /\ key \in DOMAIN field.v THEN field.v[key] ELSE None

Echoed(c, shownKey, key) ==
  LET shown == Payload(c).v["unraid_system"] IN
  EchoOf(shown, shownKey) = EchoOf(FieldIn(upstream[c], "info"), key)

C10_HealthSuccessIsHealthy ==
  \A c \in Calls :
    (Finished(c) /\ call[c].name = "health_check" /\ DataIsMapping(upstream[c])) =>
      /\ PayloadHas(c, "status")
      /\ Payload(c).v["status"] = Str("healthy")
      /\ PayloadHas(c, "server")
      /\ Payload(c).v["server"] =
           Str(IF call[c].front = "http" THEN "Unraid MCP Server HTTP" ELSE "Unraid MCP Server")
      /\ PayloadHas(c, "unraid_system")
      /\ Echoed(c, IF call[c].front = "http" THEN "machine_id" ELSE "machineId", "machineId")
      /\ Echoed(c, "time", "time")
      /\ call[c].front = "http" => result[c].out.status = 200

(***************************************************************************)
(* C6: every inbound call sends at most one upstream request in its whole  *)
(* life and produces its result only once that request has completed or    *)
(* failed; when the request has failed the call is over with the failure   *)
(* as its result: it is never sent again.                                  *)
(***************************************************************************)
C6_OneRequestNoRetry ==
  \A c \in Calls :
    /\ sent[c] <= 1
    /\ result[c] # NoResult =>
         /\ Finished(c)
         /\ call[c].name \in Operations => (sent[c] = 1 /\ upstream[c] # NoResponse)
    /\ pc[c] = "awaiting" => (sent[c] = 1 /\ upstream[c] = NoResponse)
    /\ upstream[c] # NoResponse => (Finished(c) /\ result[c] # NoResult /\ sent[c] = 1)
    /\ (Finished(c) /\ RequestFailed(upstream[c]) /\ call[c].name \in DataOperations) =>
         ErrorShown(c) # <<>>

C6_Witness ==
  \E c \in Calls :
    /\ IsHttp(c, "get_system_info")
    /\ upstream[c] = Unreachable
    /\ sent[c] = 1
    /\ result[c].out.status = 500

(***************************************************************************)
(* C7: no state is carried between calls.  Under every interleaving and    *)
(* after every history, two finished calls of the same operation of the    *)
(* same front end whose requests got the same answer have the same result  *)
(* (the timestamp of the HTTP health record set aside).                    *)
(***************************************************************************)
WithoutTimestamp(r) ==
  IF r.t = "http" /\ r.out.body.t = "obj" /\ "timestamp" \in DOMAIN r.out.body.v
    THEN [r EXCEPT !.out.body.v = [key \in DOMAIN r.out.body.v \ {"timestamp"} |-> r.out.body.v[key]]]
    ELSE r

RECURSIVE InState(_, _)
InState(containers, state) ==
  IF containers = <<>> THEN 0
  ELSE (IF "state" \in DOMAIN Head(containers).v /\ Head(containers).v["state"].v = state
          THEN 1 ELSE 0)
       + InState(Tail(containers), state)

ExampleContainers ==
  <<Container("running"), Container("running"), Container("exited"), Container("paused")>>

C8_ContainerCounts ==
  (arg.t = "containers" /\ ret # NoResult) =>
    /\ ret.status = 200
    /\ DOMAIN ret.body.v = {"summary", "containers"}
    /\ LET summary == ret.body.v["summary"].v IN
       /\ summary["total"] = Num(Len(arg.v))
       /\ summary["running"] = Num(InState(arg.v, "running"))
       /\ summary["stopped"] = Num(InState(arg.v, "exited"))
       /\ summary["running"].lo + summary["stopped"].lo <= summary["total"].lo
       /\ arg.v = ExampleContainers =>
            ret.body.v["summary"] = Obj([total |-> Num(4), running |-> Num(2), stopped |-> Num(1)])
    /\ ret.body.v["containers"] = List(arg.v)

C8_Witness ==
  /\ arg.t = "containers"
  /\ arg.v = ExampleContainers
  /\ ret # NoResult
  /\ ret.body.v["summary"] = Obj([total |-> Num(4), running |-> Num(2), stopped |-> Num(1)])

(***************************************************************************)
(* C9: the capacity formatter maps each of total/used/free on its own:     *)
(* missing or null gives "N/A"; k >= 1073741824 gives k/1073741824 to two  *)
(* decimals and " TB"; else k >= 1048576 gives k/1048576 and " GB"; else   *)
(* k >= 1024 gives k/1024 and " MB"; else the integer and " KB".  The      *)
(* boundaries fall in the larger unit; {2147483648, 1073741824,            *)
(* 1073741824} gives {"2.00 TB", "1.00 TB", "1.00 TB"}; 500 gives          *)
(* "500 KB".                                                               *)
(***************************************************************************)
TwoDecimals(h) ==
  ToString(h \div 100) \o "." \o ToString((h % 100) \div 10) \o ToString(h % 10)

\* h hundredths is a nearest two-decimal value of n / d: |100 n - h d| <= d / 2
\* (n < 2^30, d a power of 1024; the difference is taken in units of 1024)
Nearest(h, n, d) ==
  LET d1 == d \div 1024
      a == 100 * (n \div 1024) - h * d1
      b == 100 * (n % 1024)
  IN /\ a >= -(d1 \div 2) - 100
     /\ a <= (d1 \div 2) + 1
     /\ 1024 * a + b <= 512 * d1
     /\ 1024 * a + b >= -(512 * d1)

\* the two-decimal renderings of n / d
Scaled(n, d) ==
  LET low == IF d = 1024 THEN (100 * n) \div 1024 ELSE (100 * (n \div 1024)) \div (d \div 1024)
  IN {h \in low..(low + 2) : Nearest(h, n, d)}

Expected(k) ==
  IF k \in {Absent, None} THEN {"N/A"}
  ELSE IF k.hi >= 1 THEN {TwoDecimals(100 * k.hi + h) \o " TB" : h \in Scaled(k.lo, 1073741824)}
  ELSE IF k.lo >= 1048576 THEN {TwoDecimals(h) \o " GB" : h \in Scaled(k.lo, 1048576)}
  ELSE IF k.lo >= 1024 THEN {TwoDecimals(h) \o " MB" : h \in Scaled(k.lo, 1024)}
  ELSE {ToString(k.lo) \o " KB"}

CapacityShown == ret.body.v["summary"].v["capacity"].v

C9_CapacityFormat ==
  (arg.t = "kilobytes" /\ ret # NoResult /\ \E f \in CapacityFields : arg[f] # Absent) =>
    /\ ret.status = 200
    /\ "capacity" \in DOMAIN ret.body.v["summary"].v
    /\ DOMAIN CapacityShown = CapacityFields
    /\ \A f \in CapacityFields :
         /\ CapacityShown[f].v \in Expected(arg[f])
         /\ arg[f] = Num(1024) => CapacityShown[f] = Str("1.00 MB")
         /\ arg[f] = Num(1048576) => CapacityShown[f] = Str("1.00 GB")
         /\ arg[f] = BigNum(1, 0) => CapacityShown[f] = Str("1.00 TB")
         /\ arg[f] = BigNum(2, 0) => CapacityShown[f] = Str("2.00 TB")
         /\ arg[f] = Num(1023) => CapacityShown[f] = Str("1023 KB")
         /\ arg[f] = Num(500) => CapacityShown[f] = Str("500 KB")

C9_Witness ==
  /\ arg = [t |-> "kilobytes", total |-> BigNum(2, 0), used |-> BigNum(1, 0), free |-> BigNum(1, 0)]
  /\ ret # NoResult
  /\ CapacityShown = [total |-> Str("2.00 TB"), used |-> Str("1.00 TB"), free |-> Str("1.00 TB")]

====
